---- MODULE Spec2Model ----
(***************************************************************************)
(* fs_rollback: a Rollback session registers files to modify, files to     *)
(* create and directories to create against staging temp files; commit     *)
(* applies them in three phases and rolls everything back on failure.      *)
(*                                                                         *)
(* The repository carries two implementations of the commit phases:        *)
(*   rollback/ext.rs          phases B and C are sequential loops that     *)
(*                            check existence first (RepeatedNewDir/File), *)
(*   rollback/private_api.rs  phases B and C spawn one thread per item     *)
(*                            and have no existence check.                 *)
(* The variable impl says which one a behaviour runs; registration is the  *)
(* same code for both, so impl is settled when commit is called.           *)
(***************************************************************************)
EXTENDS Integers, Sequences, FiniteSets, TLC

\* Bounds of the model.
MaxItems == 3
MaxWrites == 1
MaxExternal == 1

(***************************************************************************)
(* Paths.  A path is the sequence of its components; <<>> is the empty     *)
(* path "".  "." is the current-directory component; the working directory *)
(* is the root of the modelled tree.  Directory s exists and holds the     *)
(* existing files f1 and f2; everything else is yet to be created.         *)
(***************************************************************************)
PATHS ==
    { <<>>,
      <<"s", "f1">>, <<".", "s", "f1">>, <<"s", "f2">>,
      <<"d">>, <<".", "d">>, <<"d", "e">>, <<"d", "k.txt">>,
      <<"n.txt">>, <<".", "n.txt">>, <<"n.txt", "b">> }

\* The file names of the universe that carry an extension.
NamesWithExtension == { "k.txt", "n.txt" }

\* std::path::Path::extension(path).is_some()
HasExtension(p) ==
    /\ p # <<>>
    /\ p[Len(p)] # "."
    /\ p[Len(p)] \in NamesWithExtension

\* path.as_os_str().is_empty()
IsEmptyPath(p) == p = <<>>

\* The filesystem entry a path denotes: the path without its "." components.
Normalize(p) == SelectSeq(p, LAMBDA c : c # ".")

Root == <<>>

\* Every entry a path of the universe denotes, and the directories above it.
NODES == UNION { { SubSeq(Normalize(p), 1, i) : i \in 0..Len(Normalize(p)) } : p \in PATHS }

Parent(n) == SubSeq(n, 1, Len(n) - 1)

\* n is d or lies below d.
IsUnder(n, d) == Len(n) >= Len(d) /\ SubSeq(n, 1, Len(d)) = d

(***************************************************************************)
(* File contents and filesystem entries.                                   *)
(***************************************************************************)
ORIGINAL_BUILDER_FILE_CONTENT == "Hello world"
MODIFIED_BUILDER_FILE_CONTENT == "This is me"
EmptyContent == ""
Content == { EmptyContent, ORIGINAL_BUILDER_FILE_CONTENT, MODIFIED_BUILDER_FILE_CONTENT }

Absent == [k |-> "absent", c |-> EmptyContent]
Dir == [k |-> "dir", c |-> EmptyContent]
File(c) == [k |-> "file", c |-> c]

\* Temp files: the staging file of a noted key, the staging file of a
\* new-file key, the backup of a noted key.
TempIds == { <<kind, p>> : kind \in {"noted", "new", "backup"}, p \in PATHS }

VARIABLES
    impl,        \* "ext" or "private_api": which commit implementation runs ("any" before commit)
    fs,          \* the real filesystem: node -> Absent | Dir | File(c)
    readOnly,    \* the directories that are read-only (mode 0o555) and the files
                 \* without permissions (mode 0o000)
    tmpRO,       \* the system temp directory is read-only
    tmp,         \* every temp file: temp id -> Absent | File(c)
    noted,       \* Rollback.noted: original path -> its NamedTempFile
    new_files,   \* Rollback.new_files: target path -> its NamedTempFile
    new_dirs,    \* Rollback.new_dirs: Vec of target paths
    pc,          \* where the session is: "open", "returned" (a call just returned), the
                 \* commit steps, "ok", "err", "dropped", "panic"
    wk,          \* the worker threads of the running phase: item -> position
    wres,        \* the result each finished worker returned: item -> "ok" or an Error
    lock,        \* holder of the backups mutex, or <<"free">>
    backups,     \* the shared Vec<Backup>: sequence of noted keys
    err,         \* the error a failed phase returned, or NoError
    failedPhase, \* the phase in which an item failed: "A", "B" or "C"
    ret,         \* what commit returned: "none", "ok" or an Error
    last,        \* the last registration or lookup call and what it returned
    fsPre,       \* the filesystem when commit was called
    tmpPre,      \* the temp files when commit was called
    external,    \* number of changes made by something outside the session
    writes       \* number of writes the caller made to staging paths

vars == << impl, fs, readOnly, tmpRO, tmp, noted, new_files, new_dirs, pc, wk, wres,
           lock, backups, err, failedPhase, ret, last, fsPre, tmpPre, external, writes >>


(***************************************************************************)
(* Filesystem primitives (std::fs, tempfile, same_file), over a filesystem *)
(* f and the set ro of read-only directories and permissionless files.     *)
(* A primitive returns                                                     *)
(* [e |-> error kind or "none", fs |-> the filesystem afterwards].         *)
(***************************************************************************)
NoErr == "none"

\* A directory accepts new entries, removals and renames; a file can be
\* opened for reading and for writing.
Writable(ro, d) == d \notin ro

\* Why the parent of node n cannot be reached, or "none".
ResolveErr(f, n) ==
    LET bad == { i \in 1..(Len(n) - 1) : f[SubSeq(n, 1, i)].k # "dir" }
    IN  IF bad = {} THEN NoErr
        ELSE LET i == CHOOSE j \in bad : \A l \in bad : j <= l
             IN  IF f[SubSeq(n, 1, i)].k = "absent" THEN "NotFound" ELSE "NotADirectory"

\* Path::exists / Path::is_file / Path::is_dir
exists(f, p) == p # <<>> /\ ResolveErr(f, Normalize(p)) = NoErr /\ f[Normalize(p)].k # "absent"
is_file(f, p) == p # <<>> /\ ResolveErr(f, Normalize(p)) = NoErr /\ f[Normalize(p)].k = "file"
is_dir(f, p) == p # <<>> /\ ResolveErr(f, Normalize(p)) = NoErr /\ f[Normalize(p)].k = "dir"

\* same_file::is_same_file(a, b).unwrap_or(false): both must exist.
is_same_file(f, a, b) == exists(f, a) /\ exists(f, b) /\ Normalize(a) = Normalize(b)

\* mkdir(2) of node n.
mkdir(f, ro, n) ==
    LET e == IF ResolveErr(f, n) # NoErr THEN ResolveErr(f, n)
             ELSE IF f[n].k # "absent" THEN "AlreadyExists"
             ELSE IF ~Writable(ro, Parent(n)) THEN "PermissionDenied"
             ELSE NoErr
    IN  [e |-> e, fs |-> IF e = NoErr THEN [f EXCEPT ![n] = Dir] ELSE f]

\* std::fs::create_dir_all on node n.
RECURSIVE create_dir_all_node(_, _, _)
create_dir_all_node(f, ro, n) ==
    IF n = Root THEN [e |-> NoErr, fs |-> f]
    ELSE LET first == mkdir(f, ro, n)
             isdir(g) == ResolveErr(g, n) = NoErr /\ g[n].k = "dir"
         IN  IF first.e = NoErr THEN first
             ELSE IF first.e = "NotFound"
             THEN LET up == create_dir_all_node(f, ro, Parent(n))
                  IN  IF up.e # NoErr THEN up
                      ELSE LET second == mkdir(up.fs, ro, n)
                           IN  IF second.e = NoErr \/ isdir(up.fs)
                               THEN [e |-> NoErr, fs |-> second.fs]
                               ELSE second
             ELSE IF isdir(f) THEN [e |-> NoErr, fs |-> f]
             ELSE first

create_dir_all(f, ro, p) ==
    IF p = <<>> THEN [e |-> NoErr, fs |-> f] ELSE create_dir_all_node(f, ro, Normalize(p))

\* std::fs::File::create(path): create or truncate.
file_create(f, ro, p) ==
    LET n == Normalize(p)
        e == IF p = <<>> THEN "NotFound"
             ELSE IF ResolveErr(f, n) # NoErr THEN ResolveErr(f, n)
             ELSE IF f[n].k = "dir" THEN "IsADirectory"
             ELSE IF f[n].k = "absent" /\ ~Writable(ro, Parent(n)) THEN "PermissionDenied"
             ELSE IF f[n].k = "file" /\ ~Writable(ro, n) THEN "PermissionDenied"
             ELSE NoErr
    IN  [e |-> e, fs |-> IF e = NoErr THEN [f EXCEPT ![n] = File(EmptyContent)] ELSE f]

\* std::fs::copy(from, to) where from is a temp file (entry src) and to a real path:
\* the source is opened first, then the destination is created or truncated.
copy_to_path(f, ro, src, p) ==
    IF src.k # "file" THEN [e |-> "NotFound", fs |-> f]
    ELSE LET c == file_create(f, ro, p)
         IN  IF c.e # NoErr THEN c
             ELSE [e |-> NoErr, fs |-> [c.fs EXCEPT ![Normalize(p)] = File(src.c)]]

\* std::fs::copy(from, to) where from is a real path and to an existing temp file:
\* the error, and the bytes read.
read_path(f, ro, p) ==
    IF is_file(f, p) /\ ~Writable(ro, Normalize(p))
    THEN [e |-> "PermissionDenied", c |-> EmptyContent]
    ELSE IF is_file(f, p) THEN [e |-> NoErr, c |-> f[Normalize(p)].c]
    ELSE IF p = <<>> \/ ResolveErr(f, Normalize(p)) # NoErr \/ f[Normalize(p)].k = "absent"
    THEN [e |-> "NotFound", c |-> EmptyContent]
    ELSE [e |-> "IsADirectory", c |-> EmptyContent]

\* std::fs::remove_file(path); the caller ignores the error.
remove_file(f, ro, p) ==
    IF is_file(f, p) /\ Writable(ro, Parent(Normalize(p)))
    THEN [f EXCEPT ![Normalize(p)] = Absent]
    ELSE f

\* std::fs::remove_dir_all(path); the caller ignores the error.  The content
\* goes first; the directory itself stays when its parent is read-only.
remove_dir_all(f, ro, p) ==
    IF ~is_dir(f, p) THEN f
    ELSE LET n == Normalize(p)
         IN  [m \in NODES |->
                 IF IsUnder(m, n) /\ m # n THEN Absent
                 ELSE IF m = n /\ Writable(ro, Parent(n)) THEN Absent
                 ELSE f[m]]

\* NamedTempFile::new() / NamedTempFile::new_in(dir of node n): the error.
tempfile_new(tro) == IF tro THEN "PermissionDenied" ELSE NoErr

tempfile_new_in(f, ro, n) ==
    LET d == Parent(n)
    IN  IF ResolveErr(f, n) # NoErr THEN ResolveErr(f, n)
        ELSE IF ~Writable(ro, d) THEN "PermissionDenied"
        ELSE NoErr


(***************************************************************************)
(* Errors (error.rs) and the values calls return.                          *)
(***************************************************************************)
Ok == [kind |-> "Ok", path |-> <<>>, io |-> NoErr]
Error(kind, p) == [kind |-> kind, path |-> p, io |-> NoErr]
IOError(e) == [kind |-> "IO", path |-> <<>>, io |-> e]

\* The last call: its name, its argument, what it returned and, for a
\* lookup, the temp file found (<<>> for None).
NoCall == [op |-> "none", path |-> <<>>, ret |-> Ok, temp |-> <<>>]
Call(op, p, r) == [op |-> op, path |-> p, ret |-> r, temp |-> <<>>]
Lookup(op, p, t) == [op |-> op, path |-> p, ret |-> Ok, temp |-> t]

EmptyMap == [x \in {} |-> <<>>]
Insert(m, key, v) == [x \in (DOMAIN m) \cup {key} |-> IF x = key THEN v ELSE m[x]]
Range(s) == { s[i] : i \in DOMAIN s }
Free == <<"free">>

\* The staging temp files the session owns.
StagingIds == { noted[p] : p \in DOMAIN noted } \cup { new_files[p] : p \in DOMAIN new_files }

\* The filesystem before the session: directory s with the files f1 and f2.
InitialFs ==
    [n \in NODES |->
        IF n \in {Root, <<"s">>} THEN Dir
        ELSE IF n \in {<<"s", "f1">>, <<"s", "f2">>} THEN File(ORIGINAL_BUILDER_FILE_CONTENT)
        ELSE Absent]

Init ==
    /\ impl = "any"
    /\ fs = InitialFs
    /\ readOnly = {}
    /\ tmpRO = FALSE
    /\ tmp = [t \in TempIds |-> Absent]
    /\ noted = EmptyMap
    /\ new_files = EmptyMap
    /\ new_dirs = <<>>
    /\ pc = "open"
    /\ wk = EmptyMap
    /\ wres = EmptyMap
    /\ lock = Free
    /\ backups = <<>>
    /\ err = Ok
    /\ failedPhase = "none"
    /\ ret = Ok
    /\ last = NoCall
    /\ fsPre = fs
    /\ tmpPre = tmp
    /\ external = 0
    /\ writes = 0

\* Number of registered items.
Items == Cardinality(DOMAIN noted) + Cardinality(DOMAIN new_files) + Len(new_dirs)

commitVars == << wk, wres, lock, backups, err, failedPhase, ret, fsPre, tmpPre >>
envVars == << impl, readOnly, tmpRO, external, writes >>

(***************************************************************************)
(* Registration API (rollback.rs).                                         *)
(***************************************************************************)
\* note_file without the is_file check.
note_file_result_NoFileCheck(original) ==
    IF \E path \in DOMAIN noted : is_same_file(fs, original, path)
    THEN Error("AlreadyNoted", original)
    ELSE IF tempfile_new(tmpRO) # NoErr THEN IOError(tempfile_new(tmpRO))
    ELSE IF read_path(fs, readOnly, original).e # NoErr THEN IOError(read_path(fs, readOnly, original).e)
    ELSE Ok

\* note_file that looks for the exact key only (contains_key instead of is_same_file).
note_file_result_ExactKeyOnly(original) ==
    IF ~is_file(fs, original) THEN Error("NotAFile", original)
    ELSE IF original \in DOMAIN noted THEN Error("AlreadyNoted", original)
    ELSE IF tempfile_new(tmpRO) # NoErr THEN IOError(tempfile_new(tmpRO))
    ELSE IF read_path(fs, readOnly, original).e # NoErr THEN IOError(read_path(fs, readOnly, original).e)
    ELSE Ok

\* Rollback::note_file: what the call returns.
note_file_result(original) ==
    IF ~is_file(fs, original) THEN Error("NotAFile", original)
    ELSE IF \E path \in DOMAIN noted : is_same_file(fs, original, path)
    THEN Error("AlreadyNoted", original)
    ELSE IF tempfile_new(tmpRO) # NoErr THEN IOError(tempfile_new(tmpRO))
    ELSE IF read_path(fs, readOnly, original).e # NoErr THEN IOError(read_path(fs, readOnly, original).e)
    ELSE Ok

\* note_file that keeps the staging file it allocated when filling it fails.
note_file_LeaksTemp(original) ==
    /\ pc = "open"
    /\ LET r == note_file_result(original)
       IN  /\ last' = Call("note_file", original, r)
           /\ IF r = Ok
              THEN /\ Items < MaxItems
                   /\ tmp' = [tmp EXCEPT ![<<"noted", original>>] = File(read_path(fs, readOnly, original).c)]
                   /\ noted' = Insert(noted, original, <<"noted", original>>)
              ELSE IF r.kind = "IO" /\ tempfile_new(tmpRO) = NoErr
              THEN /\ tmp' = [tmp EXCEPT ![<<"noted", original>>] = File(EmptyContent)]
                   /\ UNCHANGED noted
              ELSE UNCHANGED << tmp, noted >>
    /\ pc' = "returned"
    /\ UNCHANGED << fs, new_files, new_dirs >>
    /\ UNCHANGED commitVars
    /\ UNCHANGED envVars

\* Rollback::note_file: on success the staging file holds the original's
\* bytes and the pair is in the noted map; on failure nothing changes.
note_file(original) ==
    /\ pc = "open"
    /\ LET r == note_file_result(original)
       IN  /\ last' = Call("note_file", original, r)
           /\ IF r = Ok
              THEN /\ Items < MaxItems
                   /\ tmp' = [tmp EXCEPT ![<<"noted", original>>] = File(read_path(fs, readOnly, original).c)]
                   /\ noted' = Insert(noted, original, <<"noted", original>>)
              ELSE UNCHANGED << tmp, noted >>
    /\ pc' = "returned"
    /\ UNCHANGED << fs, new_files, new_dirs >>
    /\ UNCHANGED commitVars
    /\ UNCHANGED envVars

\* new_file without the extension check.
new_file_result_NoExtensionCheck(path) ==
    IF exists(fs, path) THEN Error("NewItemAlreadyExists", path)
    ELSE IF path \in DOMAIN new_files THEN Error("AlreadyNoted", path)
    ELSE IF tempfile_new(tmpRO) # NoErr THEN IOError(tempfile_new(tmpRO))
    ELSE Ok

\* A new_file that looks at the extension before anything else.
new_file_result_ExtensionFirst(path) ==
    IF ~HasExtension(path) THEN Error("NotAFile", path)
    ELSE IF exists(fs, path) THEN Error("NewItemAlreadyExists", path)
    ELSE IF path \in DOMAIN new_files THEN Error("AlreadyNoted", path)
    ELSE IF tempfile_new(tmpRO) # NoErr THEN IOError(tempfile_new(tmpRO))
    ELSE Ok

\* Rollback::new_file: what the call returns.
new_file_result(path) ==
    IF exists(fs, path) THEN Error("NewItemAlreadyExists", path)
    ELSE IF path \in DOMAIN new_files THEN Error("AlreadyNoted", path)
    ELSE IF ~HasExtension(path) THEN Error("NotAFile", path)
    ELSE IF tempfile_new(tmpRO) # NoErr THEN IOError(tempfile_new(tmpRO))
    ELSE Ok

\* new_file that creates the target itself (File::create(path)) instead of
\* a staging temp file.
new_file_CreatesTarget(path) ==
    /\ pc = "open"
    /\ LET r == new_file_result(path)
       IN  /\ last' = Call("new_file", path, r)
           /\ IF r = Ok
              THEN /\ Items < MaxItems
                   /\ tmp' = [tmp EXCEPT ![<<"new", path>>] = File(EmptyContent)]
                   /\ new_files' = Insert(new_files, path, <<"new", path>>)
                   /\ fs' = file_create(fs, readOnly, path).fs
              ELSE UNCHANGED << tmp, new_files, fs >>
    /\ pc' = "returned"
    /\ UNCHANGED << noted, new_dirs >>
    /\ UNCHANGED commitVars
    /\ UNCHANGED envVars

\* A new_file whose staging file starts with content.
new_file_StagesContent(path) ==
    /\ pc = "open"
    /\ LET r == new_file_result(path)
       IN  /\ last' = Call("new_file", path, r)
           /\ IF r = Ok
              THEN /\ Items < MaxItems
                   /\ tmp' = [tmp EXCEPT ![<<"new", path>>] = File(ORIGINAL_BUILDER_FILE_CONTENT)]
                   /\ new_files' = Insert(new_files, path, <<"new", path>>)
              ELSE UNCHANGED << tmp, new_files >>
    /\ pc' = "returned"
    /\ UNCHANGED << fs, noted, new_dirs >>
    /\ UNCHANGED commitVars
    /\ UNCHANGED envVars

\* Rollback::new_file: on success an empty staging file is allocated and the
\* pair is in the new_files map; on failure nothing changes.
new_file(path) ==
    /\ pc = "open"
    /\ LET r == new_file_result(path)
       IN  /\ last' = Call("new_file", path, r)
           /\ IF r = Ok
              THEN /\ Items < MaxItems
                   /\ tmp' = [tmp EXCEPT ![<<"new", path>>] = File(EmptyContent)]
                   /\ new_files' = Insert(new_files, path, <<"new", path>>)
              ELSE UNCHANGED << tmp, new_files >>
    /\ pc' = "returned"
    /\ UNCHANGED << fs, noted, new_dirs >>
    /\ UNCHANGED commitVars
    /\ UNCHANGED envVars

\* new_dir without the extension check.
new_dir_result_NoExtensionCheck(path) ==
    IF exists(fs, path) THEN Error("NewItemAlreadyExists", path)
    ELSE IF path \in Range(new_dirs) THEN Error("AlreadyNoted", path)
    ELSE IF IsEmptyPath(path) THEN Error("NotADir", path)
    ELSE Ok

\* A new_dir that does not look the path up in new_dirs.
new_dir_result_NoDuplicateCheck(path) ==
    IF exists(fs, path) THEN Error("NewItemAlreadyExists", path)
    ELSE IF IsEmptyPath(path) \/ HasExtension(path) THEN Error("NotADir", path)
    ELSE Ok

\* A new_dir that does not look whether the path exists.
new_dir_result_NoExistsCheck(path) ==
    IF path \in Range(new_dirs) THEN Error("AlreadyNoted", path)
    ELSE IF IsEmptyPath(path) \/ HasExtension(path) THEN Error("NotADir", path)
    ELSE Ok

\* Rollback::new_dir: what the call returns.
new_dir_result(path) ==
    IF exists(fs, path) THEN Error("NewItemAlreadyExists", path)
    ELSE IF path \in Range(new_dirs) THEN Error("AlreadyNoted", path)
    ELSE IF IsEmptyPath(path) \/ HasExtension(path) THEN Error("NotADir", path)
    ELSE Ok

new_dir(path) ==
    /\ pc = "open"
    /\ LET r == new_dir_result(path)
       IN  /\ last' = Call("new_dir", path, r)
           /\ IF r = Ok
              THEN /\ Items < MaxItems
                   /\ new_dirs' = Append(new_dirs, path)
              ELSE UNCHANGED new_dirs
    /\ pc' = "returned"
    /\ UNCHANGED << fs, tmp, noted, new_files >>
    /\ UNCHANGED commitVars
    /\ UNCHANGED envVars

\* get_noted_file that looks up the exact key only.
get_noted_file_ExactKeyOnly(original) ==
    /\ pc = "open"
    /\ last' = Lookup("get_noted_file", original,
                      IF original \in DOMAIN noted THEN noted[original] ELSE <<>>)
    /\ pc' = "returned"
    /\ UNCHANGED << fs, tmp, noted, new_files, new_dirs >>
    /\ UNCHANGED commitVars
    /\ UNCHANGED envVars

\* Rollback::get_noted_file: the exact key first, then any key that is the same file.
get_noted_file(original) ==
    /\ pc = "open"
    /\ IF original \in DOMAIN noted
       THEN last' = Lookup("get_noted_file", original, noted[original])
       ELSE IF \E path \in DOMAIN noted : is_same_file(fs, path, original)
       THEN \E path \in DOMAIN noted :
               /\ is_same_file(fs, path, original)
               /\ last' = Lookup("get_noted_file", original, noted[path])
       ELSE last' = Lookup("get_noted_file", original, <<>>)
    /\ pc' = "returned"
    /\ UNCHANGED << fs, tmp, noted, new_files, new_dirs >>
    /\ UNCHANGED commitVars
    /\ UNCHANGED envVars

\* Rollback::get_new_file
get_new_file(path) ==
    /\ pc = "open"
    /\ last' = Lookup("get_new_file", path,
                      IF path \in DOMAIN new_files THEN new_files[path] ELSE <<>>)
    /\ pc' = "returned"
    /\ UNCHANGED << fs, tmp, noted, new_files, new_dirs >>
    /\ UNCHANGED commitVars
    /\ UNCHANGED envVars

\* The caller has the value the call returned and goes on.
Resume ==
    /\ pc = "returned"
    /\ pc' = "open"
    /\ last' = NoCall
    /\ UNCHANGED << fs, tmp, noted, new_files, new_dirs >>
    /\ UNCHANGED commitVars
    /\ UNCHANGED envVars

\* The caller writes content c to a staging path the session handed out
\* (std::fs::write creates or truncates the file at that path); a write of
\* the bytes the file already holds is left out.
WriteStaging(t, c) ==
    /\ pc = "open"
    /\ t \in StagingIds
    /\ tmp[t] # File(c)
    /\ writes < MaxWrites
    /\ writes' = writes + 1
    /\ tmp' = [tmp EXCEPT ![t] = File(c)]
    /\ last' = NoCall
    /\ UNCHANGED << fs, noted, new_files, new_dirs, pc >>
    /\ UNCHANGED commitVars
    /\ UNCHANGED << impl, readOnly, tmpRO, external >>

\* A drop that leaves the staging files behind (the temp files kept).
Drop_KeepsTemps ==
    /\ pc = "open"
    /\ pc' = "dropped"
    /\ last' = NoCall
    /\ UNCHANGED << fs, tmp, noted, new_files, new_dirs >>
    /\ UNCHANGED commitVars
    /\ UNCHANGED envVars

\* The session goes out of scope without commit: every NamedTempFile it owns
\* is removed.  The registries are kept as a record of what was registered.
Drop ==
    /\ pc = "open"
    /\ pc' = "dropped"
    /\ tmp' = [t \in TempIds |-> IF t \in StagingIds THEN Absent ELSE tmp[t]]
    /\ last' = NoCall
    /\ UNCHANGED << fs, noted, new_files, new_dirs >>
    /\ UNCHANGED commitVars
    /\ UNCHANGED envVars

(***************************************************************************)
(* Changes made by something outside the session before commit, as the     *)
(* tests make them: an original or a staging file is removed, a directory  *)
(* is made read-only, the existing files lose their permissions.           *)
(***************************************************************************)
ExtRemoveFile(n) ==
    /\ pc = "open" /\ external < MaxExternal
    /\ n \in { Normalize(p) : p \in DOMAIN noted }
    /\ fs[n].k = "file"
    /\ fs' = [fs EXCEPT ![n] = Absent]
    /\ external' = external + 1
    /\ last' = NoCall
    /\ UNCHANGED << impl, readOnly, tmpRO, writes, tmp, noted, new_files, new_dirs, pc >>
    /\ UNCHANGED commitVars

ExtRemoveStaging(t) ==
    /\ pc = "open" /\ external < MaxExternal
    /\ t \in StagingIds
    /\ tmp[t].k = "file"
    /\ tmp' = [tmp EXCEPT ![t] = Absent]
    /\ external' = external + 1
    /\ last' = NoCall
    /\ UNCHANGED << impl, readOnly, tmpRO, writes, fs, noted, new_files, new_dirs, pc >>
    /\ UNCHANGED commitVars

\* Something outside the session creates a registered new path after its
\* registration, as the unit tests of the rollback do by hand:
\* std::fs::create_dir_all(new_dirs[0]), File::create(new_files[0]).
\* One registered path is created, while none of them exists yet.
ExtCreate(p) ==
    /\ pc = "open"
    /\ p \in (DOMAIN new_files) \cup Range(new_dirs)
    /\ \A q \in (DOMAIN new_files) \cup Range(new_dirs) : ~exists(fs, q)
    /\ LET r == IF p \in DOMAIN new_files THEN file_create(fs, readOnly, p)
                ELSE create_dir_all(fs, readOnly, p)
       IN  r.e = NoErr /\ fs' = r.fs
    /\ last' = NoCall
    /\ UNCHANGED << impl, readOnly, tmpRO, external, writes, tmp, noted, new_files, new_dirs, pc >>
    /\ UNCHANGED commitVars

\* TestBuilder::with_read_only_dir / with_read_only_temp_dir /
\* with_permissionless_files
ExtReadOnly(which) ==
    /\ pc = "open" /\ external < MaxExternal
    /\ IF which = "tmp"
       THEN ~tmpRO /\ tmpRO' = TRUE /\ UNCHANGED readOnly
       ELSE LET d == IF which = "root" THEN {Root}
                     ELSE IF which = "s" THEN {<<"s">>}
                     ELSE { n \in NODES : InitialFs[n].k = "file" }
            IN  ~(d \subseteq readOnly) /\ readOnly' = readOnly \cup d /\ UNCHANGED tmpRO
    /\ external' = external + 1
    /\ last' = NoCall
    /\ UNCHANGED << impl, writes, fs, tmp, noted, new_files, new_dirs, pc >>
    /\ UNCHANGED commitVars


(***************************************************************************)
(* Commit (rollback.rs, rollback/ext.rs, rollback/private_api.rs,          *)
(* rollback/backup.rs).                                                    *)
(***************************************************************************)
\* The error a failed item of a phase returns: Error::Commit(path, err) in
\* ext.rs, Error::Descriptive(message with path and err) in private_api.rs.
CommitError(p, e) ==
    [kind |-> IF impl = "ext" THEN "Commit" ELSE "Descriptive", path |-> p, io |-> e]

AllDone == \A k \in DOMAIN wk : wk[k] = "done"
Failed == { k \in DOMAIN wk : k \in DOMAIN wres /\ wres[k] # Ok }
Spawn(items, at) == [k \in items |-> at]

\* Rollback::commit is called: phase A spawns one thread per noted file.
Commit ==
    /\ pc = "open"
    /\ pc' = "A"
    /\ impl' \in {"ext", "private_api"}
    /\ fsPre' = fs
    /\ tmpPre' = tmp
    /\ backups' = <<>>
    /\ wk' = Spawn(DOMAIN noted, "backup")
    /\ wres' = EmptyMap
    /\ last' = NoCall
    /\ UNCHANGED << fs, tmp, noted, new_files, new_dirs, lock, err, failedPhase, ret >>
    /\ UNCHANGED << readOnly, tmpRO, external, writes >>

A_Backup_LeavesTemp(original) ==
    /\ pc = "A"
    /\ original \in DOMAIN wk /\ wk[original] = "backup"
    /\ LET te == tempfile_new_in(fs, readOnly, Normalize(original))
           rd == read_path(fs, readOnly, original)
           e == IF te # NoErr THEN te ELSE rd.e
       IN  IF e # NoErr
           THEN /\ wres' = Insert(wres, original, CommitError(original, e))
                /\ wk' = [wk EXCEPT ![original] = "done"]
                /\ tmp' = IF te = NoErr
                          THEN [tmp EXCEPT ![<<"backup", original>>] = File(EmptyContent)]
                          ELSE tmp
           ELSE /\ tmp' = [tmp EXCEPT ![<<"backup", original>>] = File(rd.c)]
                /\ wk' = [wk EXCEPT ![original] = "lock"]
                /\ UNCHANGED wres
    /\ failedPhase' = IF original \in DOMAIN wres' /\ wres'[original] # Ok THEN "A" ELSE failedPhase
    /\ UNCHANGED << fs, noted, new_files, new_dirs, pc, lock, backups, err, ret, last, fsPre, tmpPre >>
    /\ UNCHANGED envVars

\* Phase A worker, Backup::new(original): a temp file in the original's
\* parent directory, then the original's bytes copied into it.
A_Backup(original) ==
    /\ pc = "A"
    /\ original \in DOMAIN wk /\ wk[original] = "backup"
    /\ LET te == tempfile_new_in(fs, readOnly, Normalize(original))
           rd == read_path(fs, readOnly, original)
           e == IF te # NoErr THEN te ELSE rd.e
       IN  IF e # NoErr
           THEN /\ wres' = Insert(wres, original, CommitError(original, e))
                /\ wk' = [wk EXCEPT ![original] = "done"]
                /\ UNCHANGED tmp
           ELSE /\ tmp' = [tmp EXCEPT ![<<"backup", original>>] = File(rd.c)]
                /\ wk' = [wk EXCEPT ![original] = "lock"]
                /\ UNCHANGED wres
    /\ failedPhase' = IF original \in DOMAIN wres' /\ wres'[original] # Ok THEN "A" ELSE failedPhase
    /\ UNCHANGED << fs, noted, new_files, new_dirs, pc, lock, backups, err, ret, last, fsPre, tmpPre >>
    /\ UNCHANGED envVars

\* Phase A worker whose push replaces the last element of the Vec, as a push
\* racing with another one would.
A_Lock_LostPush(original) ==
    /\ pc = "A"
    /\ original \in DOMAIN wk /\ wk[original] = "lock"
    /\ lock = Free
    /\ lock' = original
    /\ backups' = IF backups = <<>> THEN << original >>
                  ELSE [backups EXCEPT ![Len(backups)] = original]
    /\ wk' = [wk EXCEPT ![original] = "copy"]
    /\ UNCHANGED << fs, tmp, noted, new_files, new_dirs, pc, wres, err, failedPhase, ret, last, fsPre, tmpPre >>
    /\ UNCHANGED envVars

\* Phase A worker that drops the MutexGuard right after the push.
A_Lock_ReleasesAfterPush(original) ==
    /\ pc = "A"
    /\ original \in DOMAIN wk /\ wk[original] = "lock"
    /\ lock = Free
    /\ backups' = Append(backups, original)
    /\ wk' = [wk EXCEPT ![original] = "copy"]
    /\ UNCHANGED << fs, tmp, noted, new_files, new_dirs, pc, wres, lock, err, failedPhase, ret, last, fsPre, tmpPre >>
    /\ UNCHANGED envVars

\* Phase A worker that goes on to the copy without pushing its backup.
A_Lock_SkipsPush(original) ==
    /\ pc = "A"
    /\ original \in DOMAIN wk /\ wk[original] = "lock"
    /\ lock = Free
    /\ lock' = original
    /\ wk' = [wk EXCEPT ![original] = "copy"]
    /\ UNCHANGED << fs, tmp, noted, new_files, new_dirs, pc, wres, backups, err, failedPhase, ret, last, fsPre, tmpPre >>
    /\ UNCHANGED envVars

\* Phase A worker: mutex_backups.lock() and backups.push(backup).
A_Lock(original) ==
    /\ pc = "A"
    /\ original \in DOMAIN wk /\ wk[original] = "lock"
    /\ lock = Free
    /\ lock' = original
    /\ backups' = Append(backups, original)
    /\ wk' = [wk EXCEPT ![original] = "copy"]
    /\ UNCHANGED << fs, tmp, noted, new_files, new_dirs, pc, wres, err, failedPhase, ret, last, fsPre, tmpPre >>
    /\ UNCHANGED envVars

\* Phase A worker with the copy reversed: std::fs::copy(original, temporal).
A_Copy_Reversed(original) ==
    /\ pc = "A"
    /\ original \in DOMAIN wk /\ wk[original] = "copy"
    /\ LET r == read_path(fs, readOnly, original)
       IN  /\ tmp' = IF r.e = NoErr THEN [tmp EXCEPT ![noted[original]] = File(r.c)] ELSE tmp
           /\ wres' = Insert(wres, original,
                             IF r.e = NoErr THEN Ok ELSE CommitError(original, r.e))
    /\ lock' = Free
    /\ wk' = [wk EXCEPT ![original] = "done"]
    /\ failedPhase' = IF original \in DOMAIN wres' /\ wres'[original] # Ok THEN "A" ELSE failedPhase
    /\ UNCHANGED << fs, noted, new_files, new_dirs, pc, backups, err, ret, last, fsPre, tmpPre >>
    /\ UNCHANGED envVars

\* A phase A worker that ends without giving the lock back.
A_Copy_KeepsLock(original) ==
    /\ pc = "A"
    /\ original \in DOMAIN wk /\ wk[original] = "copy"
    /\ LET r == copy_to_path(fs, readOnly, tmp[noted[original]], original)
       IN  /\ fs' = r.fs
           /\ wres' = Insert(wres, original,
                             IF r.e = NoErr THEN Ok ELSE CommitError(original, r.e))
    /\ wk' = [wk EXCEPT ![original] = "done"]
    /\ failedPhase' = IF original \in DOMAIN wres' /\ wres'[original] # Ok THEN "A" ELSE failedPhase
    /\ UNCHANGED << tmp, noted, new_files, new_dirs, pc, lock, backups, err, ret, last, fsPre, tmpPre >>
    /\ UNCHANGED envVars

\* Phase A worker: std::fs::copy(temporal, original), then the closure
\* returns and the MutexGuard is dropped.
A_Copy(original) ==
    /\ pc = "A"
    /\ original \in DOMAIN wk /\ wk[original] = "copy"
    /\ LET r == copy_to_path(fs, readOnly, tmp[noted[original]], original)
       IN  /\ fs' = r.fs
           /\ wres' = Insert(wres, original,
                             IF r.e = NoErr THEN Ok ELSE CommitError(original, r.e))
    /\ lock' = Free
    /\ wk' = [wk EXCEPT ![original] = "done"]
    /\ failedPhase' = IF original \in DOMAIN wres' /\ wres'[original] # Ok THEN "A" ELSE failedPhase
    /\ UNCHANGED << tmp, noted, new_files, new_dirs, pc, backups, err, ret, last, fsPre, tmpPre >>
    /\ UNCHANGED envVars

\* The workers of the next phase: ext.rs loops (positions "todo"),
\* private_api.rs spawns threads.
StartDirs ==
    Spawn(Range(new_dirs), IF impl = "ext" THEN "todo" ELSE "mkdir")
StartFiles ==
    Spawn(DOMAIN new_files, IF impl = "ext" THEN "todo" ELSE "create")

\* A join of phase A that does not wait for its workers.
A_Join_NoWait ==
    /\ pc = "A"
    /\ IF Failed = {}
       THEN /\ pc' = "B"
            /\ wk' = StartDirs
            /\ UNCHANGED << err, failedPhase >>
       ELSE /\ \E k \in Failed : err' = wres[k]
            /\ UNCHANGED failedPhase
            /\ pc' = "A_rb"
            /\ wk' = EmptyMap
    /\ wres' = EmptyMap
    /\ UNCHANGED << fs, tmp, noted, new_files, new_dirs, lock, backups, ret, last, fsPre, tmpPre >>
    /\ UNCHANGED envVars

\* A join of phase A that returns at the first failed worker it sees, the
\* siblings still running being abandoned.
A_Join_FirstFailure ==
    /\ pc = "A"
    /\ IF Failed = {}
       THEN /\ AllDone
            /\ pc' = "B"
            /\ wk' = StartDirs
            /\ UNCHANGED << err, failedPhase >>
       ELSE /\ \E k \in Failed : err' = wres[k]
            /\ UNCHANGED failedPhase
            /\ pc' = "A_rb"
            /\ wk' = EmptyMap
    /\ wres' = EmptyMap
    /\ UNCHANGED << fs, tmp, noted, new_files, new_dirs, lock, backups, ret, last, fsPre, tmpPre >>
    /\ UNCHANGED envVars

\* A join of phase A that goes on to phase B whatever the workers returned.
A_Join_IgnoresFailure ==
    /\ pc = "A"
    /\ AllDone
    /\ pc' = "B"
    /\ wk' = StartDirs
    /\ wres' = EmptyMap
    /\ UNCHANGED << fs, tmp, noted, new_files, new_dirs, lock, backups, err, failedPhase, ret,
                    last, fsPre, tmpPre >>
    /\ UNCHANGED envVars

\* A join of phase A that reports the error of a failed worker under the path
\* of any noted file.
A_Join_WrongPath ==
    /\ pc = "A"
    /\ AllDone
    /\ IF Failed = {}
       THEN /\ pc' = "B"
            /\ wk' = StartDirs
            /\ UNCHANGED << err, failedPhase >>
       ELSE /\ \E k \in Failed, o \in DOMAIN wk : err' = [wres[k] EXCEPT !.path = o]
            /\ UNCHANGED failedPhase
            /\ pc' = "A_rb"
            /\ wk' = EmptyMap
    /\ wres' = EmptyMap
    /\ UNCHANGED << fs, tmp, noted, new_files, new_dirs, lock, backups, ret, last, fsPre, tmpPre >>
    /\ UNCHANGED envVars

\* commit_noted_files joins every handle; the result is the error of the
\* last failing handle in the iteration order of the noted map.
A_Join ==
    /\ pc = "A"
    /\ AllDone
    /\ IF Failed = {}
       THEN /\ pc' = "B"
            /\ wk' = StartDirs
            /\ UNCHANGED << err, failedPhase >>
       ELSE /\ \E k \in Failed : err' = wres[k]
            /\ UNCHANGED failedPhase
            /\ pc' = "A_rb"
            /\ wk' = EmptyMap
    /\ wres' = EmptyMap
    /\ UNCHANGED << fs, tmp, noted, new_files, new_dirs, lock, backups, ret, last, fsPre, tmpPre >>
    /\ UNCHANGED envVars

\* A Backup::rollback that copies the backup over its original and keeps the
\* backup temp file.
RollbackBackup_KeepsBackup ==
    /\ pc \in {"A_rb", "B_rb", "C_rb"}
    /\ backups # <<>>
    /\ LET original == Head(backups)
           n == Normalize(original)
           b == tmp[<<"backup", original>>]
       IN  IF b.k = "file" /\ ResolveErr(fs, n) = NoErr /\ fs[n].k # "dir"
              /\ Writable(readOnly, Parent(n))
           THEN /\ fs' = [fs EXCEPT ![n] = File(b.c)]
                /\ backups' = Tail(backups)
                /\ UNCHANGED << pc, tmp >>
           ELSE /\ pc' = "panic"
                /\ UNCHANGED << fs, tmp, backups >>
    /\ UNCHANGED << noted, new_files, new_dirs, wk, wres, lock, err, failedPhase, ret, last, fsPre, tmpPre >>
    /\ UNCHANGED envVars

\* Backup::rollback of the next backup of the Vec: persist (rename) the
\* backup over its original; a failure panics.
RollbackBackup ==
    /\ pc \in {"A_rb", "B_rb", "C_rb"}
    /\ backups # <<>>
    /\ LET original == Head(backups)
           n == Normalize(original)
           b == tmp[<<"backup", original>>]
       IN  IF b.k = "file" /\ ResolveErr(fs, n) = NoErr /\ fs[n].k # "dir"
              /\ Writable(readOnly, Parent(n))
           THEN /\ fs' = [fs EXCEPT ![n] = File(b.c)]
                /\ tmp' = [tmp EXCEPT ![<<"backup", original>>] = Absent]
                /\ backups' = Tail(backups)
                /\ UNCHANGED pc
           ELSE /\ pc' = "panic"
                /\ UNCHANGED << fs, tmp, backups >>
    /\ UNCHANGED << noted, new_files, new_dirs, wk, wres, lock, err, failedPhase, ret, last, fsPre, tmpPre >>
    /\ UNCHANGED envVars

\* A commit that does not call rollback_new_dirs after a failed phase B.
AfterBackups_KeepsNewDirs ==
    /\ pc \in {"A_rb", "B_rb", "C_rb"}
    /\ backups = <<>>
    /\ pc' = IF pc \in {"A_rb", "B_rb"} THEN "return_err" ELSE "rb_files"
    /\ wk' = IF pc \in {"A_rb", "B_rb"} THEN EmptyMap
             ELSE Spawn(DOMAIN new_files, "rm")
    /\ UNCHANGED << fs, tmp, noted, new_files, new_dirs, wres, lock, backups, err, failedPhase,
                    ret, last, fsPre, tmpPre >>
    /\ UNCHANGED envVars

\* Every backup is rolled back: what commit does next.
AfterBackups ==
    /\ pc \in {"A_rb", "B_rb", "C_rb"}
    /\ backups = <<>>
    /\ pc' = IF pc = "A_rb" THEN "return_err"
             ELSE IF pc = "B_rb" THEN "rb_dirs" ELSE "rb_files"
    /\ wk' = IF pc = "A_rb" THEN EmptyMap
             ELSE IF pc = "B_rb" THEN Spawn(Range(new_dirs), "rm")
             ELSE Spawn(DOMAIN new_files, "rm")
    /\ UNCHANGED << fs, tmp, noted, new_files, new_dirs, wres, lock, backups, err, failedPhase, ret,
                    last, fsPre, tmpPre >>
    /\ UNCHANGED envVars


\* The first directory of the Vec the ext.rs loop has not handled yet.
NextDir ==
    new_dirs[CHOOSE i \in 1..Len(new_dirs) :
                 /\ wk[new_dirs[i]] = "todo"
                 /\ \A j \in 1..(i - 1) : wk[new_dirs[j]] = "done"]

\* ext.rs commit_new_dirs, one iteration of the loop: the existence check,
\* then create_dir_all; the first error returns.
B_ExtStep ==
    /\ pc = "B" /\ impl = "ext"
    /\ ~AllDone
    /\ LET dir == NextDir
           r == create_dir_all(fs, readOnly, dir)
       IN  IF exists(fs, dir)
           THEN /\ err' = Error("RepeatedNewDir", dir)
                /\ failedPhase' = "B"
                /\ pc' = "B_rb"
                /\ wk' = EmptyMap
                /\ UNCHANGED fs
           ELSE /\ fs' = r.fs
                /\ IF r.e # NoErr
                   THEN /\ err' = CommitError(dir, r.e)
                        /\ failedPhase' = "B"
                        /\ pc' = "B_rb"
                        /\ wk' = EmptyMap
                   ELSE /\ wk' = [wk EXCEPT ![dir] = "done"]
                        /\ UNCHANGED << err, failedPhase, pc >>
    /\ UNCHANGED << tmp, noted, new_files, new_dirs, wres, lock, backups, ret, last, fsPre, tmpPre >>
    /\ UNCHANGED envVars

\* private_api.rs commit_new_dirs, one thread: create_dir_all.
B_Worker(dir) ==
    /\ pc = "B" /\ impl = "private_api"
    /\ dir \in DOMAIN wk /\ wk[dir] = "mkdir"
    /\ LET r == create_dir_all(fs, readOnly, dir)
       IN  /\ fs' = r.fs
           /\ wres' = Insert(wres, dir, IF r.e = NoErr THEN Ok ELSE CommitError(dir, r.e))
    /\ wk' = [wk EXCEPT ![dir] = "done"]
    /\ failedPhase' = IF dir \in DOMAIN wres' /\ wres'[dir] # Ok THEN "B" ELSE failedPhase
    /\ UNCHANGED << tmp, noted, new_files, new_dirs, pc, lock, backups, err, ret, last, fsPre, tmpPre >>
    /\ UNCHANGED envVars

\* A join of phase B that does not wait for its threads.
B_Join_NoWait ==
    /\ pc = "B"
    /\ impl = "private_api" \/ AllDone
    /\ IF Failed = {}
       THEN /\ pc' = "C"
            /\ wk' = StartFiles
            /\ UNCHANGED << err, failedPhase >>
       ELSE /\ \E k \in Failed : err' = wres[k]
            /\ UNCHANGED failedPhase
            /\ pc' = "B_rb"
            /\ wk' = EmptyMap
    /\ wres' = EmptyMap
    /\ UNCHANGED << fs, tmp, noted, new_files, new_dirs, lock, backups, ret, last, fsPre, tmpPre >>
    /\ UNCHANGED envVars

\* Phase B is over without error (the ext.rs loop ended, or the
\* private_api.rs join found no failed handle), or the join found one.
B_Join ==
    /\ pc = "B"
    /\ AllDone
    /\ IF Failed = {}
       THEN /\ pc' = "C"
            /\ wk' = StartFiles
            /\ UNCHANGED << err, failedPhase >>
       ELSE /\ \E k \in Failed : err' = wres[k]
            /\ UNCHANGED failedPhase
            /\ pc' = "B_rb"
            /\ wk' = EmptyMap
    /\ wres' = EmptyMap
    /\ UNCHANGED << fs, tmp, noted, new_files, new_dirs, lock, backups, ret, last, fsPre, tmpPre >>
    /\ UNCHANGED envVars

\* ext.rs commit_new_files, one iteration of the loop over the map (in the
\* map's iteration order): the existence check, File::create, then the copy.
C_ExtStep(path) ==
    /\ pc = "C" /\ impl = "ext"
    /\ path \in DOMAIN wk /\ wk[path] = "todo"
    /\ LET cr == file_create(fs, readOnly, path)
           cp == copy_to_path(cr.fs, readOnly, tmp[new_files[path]], path)
       IN  IF exists(fs, path)
           THEN /\ err' = Error("RepeatedNewFile", path)
                /\ failedPhase' = "C"
                /\ pc' = "C_rb"
                /\ wk' = EmptyMap
                /\ UNCHANGED fs
           ELSE IF cr.e # NoErr
           THEN /\ err' = CommitError(path, cr.e)
                /\ failedPhase' = "C"
                /\ pc' = "C_rb"
                /\ wk' = EmptyMap
                /\ UNCHANGED fs
           ELSE /\ fs' = cp.fs
                /\ IF cp.e # NoErr
                   THEN /\ err' = CommitError(path, cp.e)
                        /\ failedPhase' = "C"
                        /\ pc' = "C_rb"
                        /\ wk' = EmptyMap
                   ELSE /\ wk' = [wk EXCEPT ![path] = "done"]
                        /\ UNCHANGED << err, failedPhase, pc >>
    /\ UNCHANGED << tmp, noted, new_files, new_dirs, wres, lock, backups, ret, last, fsPre, tmpPre >>
    /\ UNCHANGED envVars

\* private_api.rs commit_new_files, one thread: File::create.
C_Create(path) ==
    /\ pc = "C" /\ impl = "private_api"
    /\ path \in DOMAIN wk /\ wk[path] = "create"
    /\ LET r == file_create(fs, readOnly, path)
       IN  /\ fs' = r.fs
           /\ IF r.e # NoErr
              THEN /\ wres' = Insert(wres, path, CommitError(path, r.e))
                   /\ wk' = [wk EXCEPT ![path] = "done"]
              ELSE /\ wk' = [wk EXCEPT ![path] = "copy"]
                   /\ UNCHANGED wres
    /\ failedPhase' = IF path \in DOMAIN wres' /\ wres'[path] # Ok THEN "C" ELSE failedPhase
    /\ UNCHANGED << tmp, noted, new_files, new_dirs, pc, lock, backups, err, ret, last, fsPre, tmpPre >>
    /\ UNCHANGED envVars

\* private_api.rs commit_new_files, one thread: std::fs::copy(temporal, path).
C_Copy(path) ==
    /\ pc = "C" /\ impl = "private_api"
    /\ path \in DOMAIN wk /\ wk[path] = "copy"
    /\ LET r == copy_to_path(fs, readOnly, tmp[new_files[path]], path)
       IN  /\ fs' = r.fs
           /\ wres' = Insert(wres, path, IF r.e = NoErr THEN Ok ELSE CommitError(path, r.e))
    /\ wk' = [wk EXCEPT ![path] = "done"]
    /\ failedPhase' = IF path \in DOMAIN wres' /\ wres'[path] # Ok THEN "C" ELSE failedPhase
    /\ UNCHANGED << tmp, noted, new_files, new_dirs, pc, lock, backups, err, ret, last, fsPre, tmpPre >>
    /\ UNCHANGED envVars

\* A join of phase C that runs the phase again when a worker failed.
C_Join_Retries ==
    /\ pc = "C"
    /\ AllDone
    /\ IF Failed = {}
       THEN /\ pc' = "return_ok"
            /\ wk' = EmptyMap
            /\ UNCHANGED << err, failedPhase >>
       ELSE /\ \E k \in Failed : err' = wres[k]
            /\ UNCHANGED failedPhase
            /\ pc' = "C"
            /\ wk' = StartFiles
    /\ wres' = EmptyMap
    /\ UNCHANGED << fs, tmp, noted, new_files, new_dirs, lock, backups, ret, last, fsPre, tmpPre >>
    /\ UNCHANGED envVars

\* Phase C is over.
C_Join ==
    /\ pc = "C"
    /\ AllDone
    /\ IF Failed = {}
       THEN /\ pc' = "return_ok"
            /\ UNCHANGED << err, failedPhase >>
       ELSE /\ \E k \in Failed : err' = wres[k]
            /\ UNCHANGED failedPhase
            /\ pc' = "C_rb"
    /\ wk' = EmptyMap
    /\ wres' = EmptyMap
    /\ UNCHANGED << fs, tmp, noted, new_files, new_dirs, lock, backups, ret, last, fsPre, tmpPre >>
    /\ UNCHANGED envVars

\* rollback_new_files, one thread: remove_file, the result ignored.
RollbackNewFile(file) ==
    /\ pc = "rb_files"
    /\ file \in DOMAIN wk /\ wk[file] = "rm"
    /\ fs' = remove_file(fs, readOnly, file)
    /\ wk' = [wk EXCEPT ![file] = "done"]
    /\ UNCHANGED << tmp, noted, new_files, new_dirs, pc, wres, lock, backups, err, failedPhase, ret, last,
                    fsPre, tmpPre >>
    /\ UNCHANGED envVars

\* rollback_new_dirs, one thread: remove_dir_all, the result ignored.
RollbackNewDir(dir) ==
    /\ pc = "rb_dirs"
    /\ dir \in DOMAIN wk /\ wk[dir] = "rm"
    /\ fs' = remove_dir_all(fs, readOnly, dir)
    /\ wk' = [wk EXCEPT ![dir] = "done"]
    /\ UNCHANGED << tmp, noted, new_files, new_dirs, pc, wres, lock, backups, err, failedPhase, ret, last,
                    fsPre, tmpPre >>
    /\ UNCHANGED envVars

\* A rollback that does not join its deletion threads.
RollbackJoin_NoWait ==
    /\ pc \in {"rb_files", "rb_dirs"}
    /\ pc' = IF pc = "rb_files" THEN "rb_dirs" ELSE "return_err"
    /\ wk' = IF pc = "rb_files" THEN Spawn(Range(new_dirs), "rm") ELSE EmptyMap
    /\ UNCHANGED << fs, tmp, noted, new_files, new_dirs, wres, lock, backups, err, failedPhase, ret, last,
                    fsPre, tmpPre >>
    /\ UNCHANGED envVars

\* The join of a rollback: after the files the directories, after the
\* directories commit returns the error.
RollbackJoin ==
    /\ pc \in {"rb_files", "rb_dirs"}
    /\ AllDone
    /\ pc' = IF pc = "rb_files" THEN "rb_dirs" ELSE "return_err"
    /\ wk' = IF pc = "rb_files" THEN Spawn(Range(new_dirs), "rm") ELSE EmptyMap
    /\ UNCHANGED << fs, tmp, noted, new_files, new_dirs, wres, lock, backups, err, failedPhase, ret, last,
                    fsPre, tmpPre >>
    /\ UNCHANGED envVars

\* A return of commit that keeps the staging files of the session.
Return_KeepsStaging ==
    /\ pc \in {"return_ok", "return_err"}
    /\ pc' = IF pc = "return_ok" THEN "ok" ELSE "err"
    /\ ret' = IF pc = "return_ok" THEN Ok ELSE err
    /\ tmp' = [t \in TempIds |-> IF t \in StagingIds THEN tmp[t] ELSE Absent]
    /\ UNCHANGED << fs, noted, new_files, new_dirs, wk, wres, lock, backups, err, failedPhase, last, fsPre, tmpPre >>
    /\ UNCHANGED envVars

\* commit returns; self and the backups go out of scope, which removes
\* every temp file that still exists.
Return ==
    /\ pc \in {"return_ok", "return_err"}
    /\ pc' = IF pc = "return_ok" THEN "ok" ELSE "err"
    /\ ret' = IF pc = "return_ok" THEN Ok ELSE err
    /\ tmp' = [t \in TempIds |-> Absent]
    /\ UNCHANGED << fs, noted, new_files, new_dirs, wk, wres, lock, backups, err, failedPhase, last, fsPre, tmpPre >>
    /\ UNCHANGED envVars

Next ==
    \/ \E p \in PATHS : note_file(p)
    \/ \E p \in PATHS : new_file(p)
    \/ \E p \in PATHS : new_dir(p)
    \/ \E p \in PATHS : get_noted_file(p)
    \/ \E p \in PATHS : get_new_file(p)
    \/ \E t \in StagingIds, c \in Content : WriteStaging(t, c)
    \/ Resume
    \/ Drop
    \/ \E p \in DOMAIN noted : ExtRemoveFile(Normalize(p))
    \/ \E t \in StagingIds : ExtRemoveStaging(t)
    \/ \E which \in {"root", "s", "tmp", "files"} : ExtReadOnly(which)
    \/ Commit
    \/ \E p \in DOMAIN wk : A_Backup(p)
    \/ \E p \in DOMAIN wk : A_Lock(p)
    \/ \E p \in DOMAIN wk : A_Copy(p)
    \/ A_Join
    \/ RollbackBackup
    \/ AfterBackups
    \/ B_ExtStep
    \/ \E p \in DOMAIN wk : B_Worker(p)
    \/ B_Join
    \/ \E p \in DOMAIN wk : C_ExtStep(p)
    \/ \E p \in DOMAIN wk : C_Create(p)
    \/ \E p \in DOMAIN wk : C_Copy(p)
    \/ C_Join
    \/ \E p \in DOMAIN wk : RollbackNewFile(p)
    \/ \E p \in DOMAIN wk : RollbackNewDir(p)
    \/ RollbackJoin
    \/ Return

Spec == Init /\ [][Next]_vars

\* The same program in an environment that may also create a registered new
\* path between its registration and commit.
\* The steps of a running commit: the worker threads of the phases, the
\* joins, the rollback and the return.
CommitRuns ==
    \/ \E p \in DOMAIN wk : A_Backup(p)
    \/ \E p \in DOMAIN wk : A_Lock(p)
    \/ \E p \in DOMAIN wk : A_Copy(p)
    \/ A_Join
    \/ RollbackBackup
    \/ AfterBackups
    \/ B_ExtStep
    \/ \E p \in DOMAIN wk : B_Worker(p)
    \/ B_Join
    \/ \E p \in DOMAIN wk : C_ExtStep(p)
    \/ \E p \in DOMAIN wk : C_Create(p)
    \/ \E p \in DOMAIN wk : C_Copy(p)
    \/ C_Join
    \/ \E p \in DOMAIN wk : RollbackNewFile(p)
    \/ \E p \in DOMAIN wk : RollbackNewDir(p)
    \/ RollbackJoin
    \/ Return

\* The program under a scheduler that does not stop a commit for ever while
\* one of its threads can run.
FairSpec == Init /\ [][Next]_vars /\ WF_vars(CommitRuns)

NextWithCreation ==
    \/ Next
    \/ \E p \in PATHS : ExtCreate(p)

SpecWithCreation == Init /\ [][NextWithCreation]_vars

TypeOK ==
    /\ impl \in {"any", "ext", "private_api"}
    /\ failedPhase \in {"none", "A", "B", "C"}
    /\ \A n \in NODES : fs[n].k \in {"absent", "dir", "file"}
    /\ DOMAIN noted \subseteq PATHS
    /\ DOMAIN new_files \subseteq PATHS
    /\ Range(new_dirs) \subseteq PATHS


(***************************************************************************)
(* Properties.                                                             *)
(***************************************************************************)
\* Every path the session registered as a new file or a new directory.
RegisteredNewPaths == (DOMAIN new_files) \cup Range(new_dirs)

\* The session (not the environment) takes a step before commit: a
\* registration, a lookup, the caller going on, a write to a staging path.
SessionStep ==
    \/ \E p \in PATHS : note_file(p) \/ new_file(p) \/ new_dir(p)
    \/ \E p \in PATHS : get_noted_file(p) \/ get_new_file(p)
    \/ \E t \in StagingIds, c \in Content : WriteStaging(t, c)
    \/ Resume

\* C1: after every commit that returned an error, every noted file that
\* existed when commit was called holds the bytes it held then, and none of
\* the registered new-file and new-directory paths exists.
C1_FailedCommitRestoresRegisteredPaths ==
    pc = "err" =>
        /\ \A p \in DOMAIN noted :
               is_file(fsPre, p) => fs[Normalize(p)] = fsPre[Normalize(p)]
        /\ \A p \in RegisteredNewPaths : ~exists(fs, p)

\* C2: after every commit that returned an error, the whole filesystem is
\* what it was when commit was called; no directory that create_dir_all
\* made above a registered path is left.
C2_FailedCommitLeavesFilesystemUnaltered ==
    pc = "err" => fs = fsPre

\* C3: round trip.  When commit returned Ok, every noted file p holds the
\* content that its staging file (the one get_noted_file(p) hands out) held
\* when commit was called, that is the content C last written to it.
C3_NotedRoundTrip ==
    pc = "ok" =>
        \A p \in DOMAIN noted :
            /\ tmpPre[noted[p]].k = "file"
            /\ fs[Normalize(p)] = tmpPre[noted[p]]

\* C3 happens: commit returned Ok for a noted file whose staging file was
\* overwritten with content other than the original's.
C3_Witness ==
    /\ pc = "ok"
    /\ \E p \in DOMAIN noted :
           /\ tmpPre[noted[p]] = File(MODIFIED_BUILDER_FILE_CONTENT)
           /\ fsPre[Normalize(p)] = File(ORIGINAL_BUILDER_FILE_CONTENT)
           /\ fs[Normalize(p)] = File(MODIFIED_BUILDER_FILE_CONTENT)

\* C4: when commit returned Ok, every noted original holds the content of
\* its staging file, every registered new directory exists as a directory,
\* and every registered new file exists with the content of its staging
\* file, whatever the interleaving of the commit's threads was.
C4_SuccessfulCommitAppliesEverything ==
    pc = "ok" =>
        /\ \A p \in DOMAIN noted : fs[Normalize(p)] = tmpPre[noted[p]]
        /\ \A d \in Range(new_dirs) : is_dir(fs, d)
        /\ \A p \in DOMAIN new_files :
               is_file(fs, p) /\ fs[Normalize(p)] = tmpPre[new_files[p]]

C6_DropLeavesNothingBehind ==
    pc = "dropped" =>
        /\ \A t \in TempIds : tmp[t] = Absent
        /\ \A n \in NODES :
               \/ fs[n] = InitialFs[n]
               \/ /\ external > 0
                  /\ n \in { Normalize(p) : p \in DOMAIN noted }
                  /\ fs[n] = Absent

\* C6 happens: a session with a noted file, a new file, a new directory
\* and a written staging file was dropped.
C6_Witness ==
    /\ pc = "dropped"
    /\ DOMAIN noted # {}
    /\ DOMAIN new_files # {}
    /\ new_dirs # <<>>
    /\ writes > 0

NotedKeysDistinct ==
    \A a \in DOMAIN noted, b \in DOMAIN noted : a # b => Normalize(a) # Normalize(b)

C11_FailedRegistrationChangesNothing ==
    [][\A p \in PATHS :
          ((note_file(p) \/ new_file(p) \/ new_dir(p)) /\ last'.ret # Ok) =>
              UNCHANGED << noted, new_files, new_dirs, tmp >>]_vars

\* A note_file whose staging file was allocated and could not be filled has
\* returned, in a session that already holds registrations.
C11_Witness ==
    /\ pc = "returned"
    /\ last.op = "note_file"
    /\ last.ret = IOError("PermissionDenied")
    /\ ~tmpRO
    /\ Items > 0

\* q is the noted key k or denotes the filesystem entry k denotes.
MatchesNoted(q, k) == q = k \/ is_same_file(fs, k, q)

AliasedNewDirs ==
    { d \in Range(new_dirs) :
        /\ ~exists(fsPre, d)
        /\ \E o \in Range(new_dirs) : o # d /\ Normalize(o) = Normalize(d) }

\* C13: when two differently spelled paths of one not yet existing directory
\* were registered with new_dir (and nothing outside the session interfered),
\* commit returns RepeatedNewDir, the directory does not exist after commit
\* returned, and every noted file holds its pre-commit content again.
C13_AliasedNewDirsFailCommit ==
    (pc \in {"ok", "err"} /\ external = 0 /\ AliasedNewDirs # {}) =>
        /\ pc = "err" /\ ret.kind = "RepeatedNewDir"
        /\ \A d \in AliasedNewDirs : ~exists(fs, d)
        /\ \A p \in DOMAIN noted : fs[Normalize(p)] = fsPre[Normalize(p)]

\* Two differently spelled registered new files that denote the same file,
\* which did not exist when commit was called.
AliasedNewFiles ==
    { p \in DOMAIN new_files :
        /\ ~exists(fsPre, p)
        /\ \E o \in DOMAIN new_files : o # p /\ Normalize(o) = Normalize(p) }

\* C14: when two differently spelled paths of one not yet existing file were
\* registered with new_file (no other new file is registered and nothing
\* outside the session interfered), commit fails with RepeatedNewFile naming one of them, and after commit
\* returned the file does not exist, the noted files hold their pre-commit
\* content and no registered new directory exists.
C14_AliasedNewFilesFailCommit ==
    (/\ pc \in {"ok", "err"} /\ external = 0
     /\ AliasedNewFiles # {} /\ DOMAIN new_files = AliasedNewFiles) =>
        /\ pc = "err" /\ ret.kind = "RepeatedNewFile" /\ ret.path \in AliasedNewFiles
        /\ \A p \in AliasedNewFiles : ~exists(fs, p)
        /\ \A p \in DOMAIN noted : fs[Normalize(p)] = fsPre[Normalize(p)]
        /\ \A d \in Range(new_dirs) : ~exists(fs, d)

\* No registered new directory or new file has been created by this commit.
NothingNewCreated ==
    \A p \in RegisteredNewPaths : fs[Normalize(p)] = fsPre[Normalize(p)]

\* Every noted file that existed when commit was called holds the bytes it
\* held then, and no backup is left to restore.
NotedRestored ==
    /\ backups = <<>>
    /\ \A p \in DOMAIN noted :
           is_file(fsPre, p) => fs[Normalize(p)] = fsPre[Normalize(p)]

\* C15: when phase A fails for a noted item, commit restores every original
\* it had backed up and returns the error, and phases B and C never run: at
\* no point of that commit is a registered new directory or new file created.
C15_PhaseAFailure ==
    /\ (pc = "A" \/ failedPhase = "A") => NothingNewCreated
    /\ failedPhase = "A" => pc \in {"A", "A_rb", "return_err", "err"}
    /\ (pc = "err" /\ failedPhase = "A") => (NotedRestored /\ ret = err /\ ret # Ok)

\* Phase A failed for one item after the original of another was backed up and
\* overwritten, with new items registered; the backup has not been restored yet.
C15_Witness ==
    /\ pc = "A_rb"
    /\ failedPhase = "A"
    /\ RegisteredNewPaths # {}
    /\ backups # <<>>
    /\ fs[Normalize(Head(backups))] # fsPre[Normalize(Head(backups))]

\* C16: when a registered new directory cannot be created in phase B, commit
\* restores every noted file, leaves no registered new directory existing,
\* returns an error naming a registered directory path, and phase C never
\* runs: no registered new file is created at any point of that commit.
C16_PhaseBFailure ==
    /\ (pc = "B" \/ failedPhase = "B") => \A p \in DOMAIN new_files : ~is_file(fs, p)
    /\ failedPhase = "B" => pc \in {"B", "B_rb", "rb_dirs", "return_err", "err"}
    /\ (pc = "err" /\ failedPhase = "B") =>
          /\ NotedRestored
          /\ \A d \in Range(new_dirs) : ~exists(fs, d)
          /\ ret = err /\ ret # Ok /\ ret.path \in Range(new_dirs)

\* Commit returned the error of a directory of phase B, after phase A had
\* overwritten a noted file with different content, with a new file registered.
C16_Witness ==
    /\ pc = "err"
    /\ failedPhase = "B"
    /\ DOMAIN new_files # {}
    /\ \E p \in DOMAIN noted : tmpPre[noted[p]] # fsPre[Normalize(p)]

\* C17: when phase C fails on a new file, commit restores every noted file,
\* deletes every new file created so far in phase C, deletes every directory
\* created in phase B, and returns the error.
C17_PhaseCFailure ==
    (pc = "err" /\ failedPhase = "C") =>
        /\ NotedRestored
        /\ \A p \in DOMAIN new_files : ~exists(fs, p)
        /\ \A n \in NODES : fsPre[n].k = "absent" => fs[n].k # "dir"
        /\ ret = err /\ ret # Ok

\* C18: commit returns an error only after the rollback has finished: when
\* commit has returned Err, every backup has been restored, no worker is
\* left running, and every deletion of the new-file and new-directory
\* rollback has been done.
C18_ErrorReturnedAfterRollback ==
    pc = "err" =>
        /\ NotedRestored
        /\ wk = EmptyMap /\ lock = Free
        /\ \A p \in PATHS : tmp[<<"backup", p>>] = Absent
        /\ failedPhase \in {"B", "C"} => \A d \in Range(new_dirs) : ~is_dir(fs, d)
        /\ failedPhase = "C" => \A p \in DOMAIN new_files : ~is_file(fs, p)

\* Commit returned the error of phase C with a noted file, a new directory
\* and a new file registered.
C18_Witness ==
    /\ pc = "err"
    /\ failedPhase = "C"
    /\ DOMAIN noted # {}
    /\ new_dirs # <<>>
    /\ ret.path \in DOMAIN new_files

\* The registered new files whose parent directory did not exist when commit
\* was called.
MissingParentFiles ==
    { p \in DOMAIN new_files :
        Len(Normalize(p)) > 1 /\ fsPre[Parent(Normalize(p))].k = "absent" }

\* The parent of p is itself a registered new directory.
ParentRegistered(p) ==
    \E d \in Range(new_dirs) : d # <<>> /\ Normalize(d) = Parent(Normalize(p))

\* Creating some registered new directory creates the parent of p.
ParentCreated(p) ==
    \E d \in Range(new_dirs) : d # <<>> /\ IsUnder(Normalize(d), Parent(Normalize(p)))

\* C19: a registered new file whose parent does not exist yet is committed
\* when that parent is a registered new directory (the commit succeeds, or
\* fails on another item); when nothing registered creates the parent, commit
\* fails, with an error naming that file when it is the only new file and
\* phase C is reached, and everything registered is rolled back (nothing
\* outside the session interfering).
C19_NewFileUnderNewDir ==
    (pc \in {"ok", "err"} /\ external = 0) =>
        \A p \in MissingParentFiles :
            /\ ParentRegistered(p) =>
                  \/ pc = "ok" /\ is_file(fs, p) /\ fs[Normalize(p)] = tmpPre[new_files[p]]
                  \/ pc = "err" /\ ret.path # p
            /\ ~ParentCreated(p) =>
                  /\ pc = "err"
                  /\ (DOMAIN new_files = {p} /\ failedPhase = "C") => ret.path = p
                  /\ NotedRestored
                  /\ \A q \in RegisteredNewPaths : ~exists(fs, q)

\* What the phase-A worker of the noted file p runs into, from the state
\* commit was called in: Backup::new (temp file next to the original, copy
\* of the original), then the copy of the staging file over the original.
NotedItemError(p) ==
    LET te == tempfile_new_in(fsPre, readOnly, Normalize(p))
        rd == read_path(fsPre, readOnly, p)
        cp == copy_to_path(fsPre, readOnly, tmpPre[noted[p]], p)
    IN  IF te # NoErr THEN te ELSE IF rd.e # NoErr THEN rd.e ELSE cp.e

\* C20: the error of a failed commit carries the path of an item that failed,
\* never of one that succeeded: when a phase hands its error to commit, the
\* path is that of an item of the phase which returned this error or was
\* being processed; the error of phase A is the one the named file runs into,
\* so when exactly one item fails it is that item's path and error text.
C20_ErrorNamesFailedItem ==
    [][/\ err' # err =>
            /\ err' # Ok
            /\ err'.path \in DOMAIN wk
            /\ IF err'.path \in DOMAIN wres
               THEN wres[err'.path] = err'
               ELSE wk[err'.path] = "todo"
            /\ Cardinality(Failed) = 1 => err'.path \in Failed
       /\ pc' = "err" =>
            /\ ret' = err'
            /\ failedPhase' = "A" =>
                  /\ ret'.path \in DOMAIN noted
                  /\ NotedItemError(ret'.path) # NoErr
                  /\ ret'.io = NotedItemError(ret'.path)]_vars

\* Commit returned the error of the one noted file that failed in phase A,
\* while another noted file had been committed without error.
C20_Witness ==
    /\ pc = "err"
    /\ failedPhase = "A"
    /\ Cardinality({ p \in DOMAIN noted : NotedItemError(p) # NoErr }) = 1
    /\ \E p \in DOMAIN noted : NotedItemError(p) = NoErr

\* Phase A is over and succeeded: no worker holds the lock, every noted file
\* has its backup in the accumulator and holds its staging content.
PhaseADone ==
    /\ lock = Free
    /\ Range(backups) = DOMAIN noted
    /\ \A p \in DOMAIN noted : fs[Normalize(p)] = tmpPre[noted[p]]

\* Phase B is over and succeeded: every registered new directory exists.
PhaseBDone ==
    \A d \in Range(new_dirs) : d = <<>> \/ is_dir(fs, d)

\* C21: the three phases are strictly sequential: while phase A runs no
\* registered new directory or file is created, phase B starts only when
\* phase A is over and its result was Ok, while phase B runs no registered
\* new file is created, and phase C starts only when phase B is over.
C21_PhasesSequential ==
    [][/\ pc = "A" => NothingNewCreated'
       /\ pc = "B" => \A p \in DOMAIN new_files : ~is_file(fs', p)
       /\ pc' \in {"B", "C"} => PhaseADone'
       /\ pc' = "C" => PhaseBDone']_vars

\* Phase C runs with a noted file, a new directory and a new file in the
\* session, and the new file has been created.
C21_Witness ==
    /\ pc = "C"
    /\ DOMAIN noted # {}
    /\ new_dirs # <<>>
    /\ \E p \in DOMAIN new_files : is_file(fs, p)

\* C22: in phase A a failing item does not cancel its siblings: the result
\* of the phase is evaluated only when every worker has terminated, so when
\* the rollback starts every noted file that can be committed has its backup
\* in the accumulator and holds its staging content.
C22_NoCancellationInPhaseA ==
    [][(pc = "A" /\ pc' # "A") =>
          /\ AllDone
          /\ pc' = "A_rb" =>
                \A p \in DOMAIN noted :
                    NotedItemError(p) = NoErr =>
                        /\ p \in Range(backups')
                        /\ fs'[Normalize(p)] = tmpPre[noted[p]]]_vars

\* The rollback of phase A starts: one noted file failed, another one has been
\* overwritten with staging content that differs from what it held.
C22_Witness ==
    /\ pc = "A_rb"
    /\ Len(backups) = Cardinality({ p \in DOMAIN noted : NotedItemError(p) = NoErr })
    /\ \E p \in DOMAIN noted : NotedItemError(p) # NoErr
    /\ \E q \in DOMAIN noted :
          /\ NotedItemError(q) = NoErr
          /\ fs[Normalize(q)] = tmpPre[noted[q]]
          /\ fs[Normalize(q)] # fsPre[Normalize(q)]

\* What Backup::new of the noted file p runs into, from the state commit was
\* called in.
BackupError(p) ==
    LET te == tempfile_new_in(fsPre, readOnly, Normalize(p))
        rd == read_path(fsPre, readOnly, p)
    IN  IF te # NoErr THEN te ELSE rd.e

\* C23: under every interleaving of the phase-A workers, the accumulator
\* handed back at the barrier holds exactly one backup for each noted file
\* whose backup could be created, whether or not its overwrite failed
\* afterwards, and none for the others.
C23_BackupsExactAtBarrier ==
    [][(pc = "A" /\ pc' # "A") =>
          /\ Range(backups') = { p \in DOMAIN noted : BackupError(p) = NoErr }
          /\ Len(backups') = Cardinality(Range(backups'))
          /\ \A p \in Range(backups') : tmp'[<<"backup", p>>] = fsPre[Normalize(p)]]_vars

\* At the barrier the accumulator holds two backups, one of them of a file
\* whose overwrite failed.
C23_Witness ==
    /\ pc = "A_rb"
    /\ Len(backups) = 2
    /\ \E p \in Range(backups) : BackupError(p) = NoErr /\ NotedItemError(p) # NoErr

\* The phase-A workers that have pushed their backup and have not finished
\* the copy of the staging file over the original.
Overwriting == { p \in DOMAIN wk : wk[p] = "copy" }

C25_BackupBeforeOverwrite ==
    [][pc = "A" =>
          \A p \in DOMAIN noted :
              /\ (A_Copy(p) \/ fs'[Normalize(p)] # fs[Normalize(p)]) =>
                    /\ p \in Range(backups)
                    /\ tmp[<<"backup", p>>] = fsPre[Normalize(p)]
              /\ BackupError(p) # NoErr => fs'[Normalize(p)] = fsPre[Normalize(p)]]_vars

\* Phase A is running: one original has been overwritten with different
\* content, its backup being in the accumulator, and the worker of an item
\* whose backup cannot be created has returned.
C25_Witness ==
    /\ pc = "A"
    /\ \E p \in Range(backups) : wk[p] = "done" /\ fs[Normalize(p)] # fsPre[Normalize(p)]
    /\ \E q \in DOMAIN noted : BackupError(q) # NoErr /\ wk[q] = "done"

\* A step in which phase B or phase C hands its result to commit.
PhaseResultEvaluated == (pc = "B" /\ pc' # "B") \/ (pc = "C" /\ pc' # "C")

CreatedOutside == { p \in RegisteredNewPaths : exists(fsPre, p) }

\* C27: the rollback of phases B and C deletes only what this commit created:
\* when a registered new path already exists when commit reaches it, commit
\* fails with RepeatedNewDir or RepeatedNewFile and that entry, with its
\* contents, is still there after commit returned.
C27_RollbackKeepsForeignEntries ==
    (pc \in {"ok", "err"} /\ CreatedOutside # {}) =>
        /\ pc = "err"
        /\ ret.kind \in {"RepeatedNewDir", "RepeatedNewFile"}
        /\ \A p \in CreatedOutside :
               \A n \in NODES : IsUnder(n, Normalize(p)) => fs[n] = fsPre[n]

\* C28: when nothing outside the session changed the filesystem, commit returns
\* RepeatedNewDir (RepeatedNewFile) only if two registered new directories
\* (new files) denote the same target; registering a directory together with
\* one of its ancestors does not make commit fail with RepeatedNewDir.
C28_RepeatedOnlyForAliases ==
    (pc = "err" /\ external = 0) =>
        /\ ret.kind = "RepeatedNewDir" =>
              \E a, b \in Range(new_dirs) : a # b /\ Normalize(a) = Normalize(b)
        /\ ret.kind = "RepeatedNewFile" =>
              \E a, b \in DOMAIN new_files : a # b /\ Normalize(a) = Normalize(b)

\* The rollback of the new directories and files has run to its end.
RollbackDone ==
    pc \in {"return_err", "err"} /\ failedPhase \in {"B", "C"}

\* C29: rollback_new_dirs and rollback_new_files, started with any subset of
\* the registered paths existing, end with no registered new directory and
\* no registered new file left on disk.
C29_RollbackLeavesNothing ==
    RollbackDone =>
        /\ \A d \in Range(new_dirs) : ~is_dir(fs, d)
        /\ failedPhase = "C" => \A p \in DOMAIN new_files : ~is_file(fs, p)

\* The parent directory of the original p can take a new file.
ParentTakesFile(p) ==
    /\ ResolveErr(fs, Normalize(p)) = NoErr
    /\ Writable(readOnly, Parent(Normalize(p)))

\* C30: Backup::new of an original either succeeds, and then the original's
\* parent directory could take the temp file, the temp file holds the bytes
\* the original has at that moment and is kept under the original's path; or
\* it fails with the I/O error of the step that failed (PermissionDenied when
\* the parent directory is read-only, otherwise NotFound when the original is
\* missing), and then no backup temp file is left.  The original is untouched
\* in both cases.
C30_BackupNew ==
    [][\A p \in DOMAIN wk :
          (pc = "A" /\ wk[p] = "backup" /\ wk'[p] # "backup")
          => /\ fs' = fs
             /\ \A q \in PATHS \ {p} : tmp'[<<"backup", q>>] = tmp[<<"backup", q>>]
             /\ \/ /\ wk'[p] = "lock"
                   /\ p \notin DOMAIN wres'
                   /\ ParentTakesFile(p)
                   /\ is_file(fs, p)
                   /\ tmp'[<<"backup", p>>] = fs[Normalize(p)]
                \/ /\ wk'[p] = "done"
                   /\ p \in DOMAIN wres' /\ wres'[p].path = p
                   /\ wres'[p].io # NoErr
                   /\ ~Writable(readOnly, Parent(Normalize(p))) => wres'[p].io = "PermissionDenied"
                   /\ (ParentTakesFile(p) /\ ~exists(fs, p)) => wres'[p].io = "NotFound"
                   /\ tmp' = tmp
                   /\ tmp[<<"backup", p>>] = Absent]_vars

\* One backup failed after its temp file had been created, because the
\* original was missing or could not be read, and left no temp file; another
\* backup of the same commit succeeded and holds its original's bytes.
C30_Witness ==
    /\ pc = "A"
    /\ \E p \in DOMAIN wk :
          /\ wk[p] = "done" /\ p \in DOMAIN wres /\ wres[p] # Ok
          /\ tmp[<<"backup", p>>] = Absent
          /\ \/ wres[p].io = "NotFound" /\ ~exists(fs, p)
             \/ wres[p].io = "PermissionDenied" /\ ParentTakesFile(p)
    /\ \E q \in DOMAIN wk :
          wk[q] = "lock" /\ tmp[<<"backup", q>>] = fs[Normalize(q)]

\* C31: every Backup::rollback step puts back into the original exactly the
\* bytes it had when its backup was created, whatever the commit wrote to
\* it since, and consumes the backup: its temp file is gone and it is no
\* longer in the Vec.
C31_BackupRoundTrip ==
    [][(pc \in {"A_rb", "B_rb", "C_rb"} /\ backups # <<>> /\ backups' # backups)
       => LET original == Head(backups)
          IN  /\ fsPre[Normalize(original)].k = "file"
              /\ fs'[Normalize(original)] = fsPre[Normalize(original)]
              /\ tmp[<<"backup", original>>] = fsPre[Normalize(original)]
              /\ tmp'[<<"backup", original>>] = Absent
              /\ original \notin Range(backups')
              /\ \A n \in NODES \ {Normalize(original)} : fs'[n] = fs[n]]_vars

\* A noted file whose staged bytes differ from its own was overwritten by
\* phase A and then restored by its backup, which is consumed.
C31_Witness ==
    /\ pc \in {"A_rb", "B_rb", "C_rb"}
    /\ \E p \in DOMAIN noted :
          /\ NotedItemError(p) = NoErr
          /\ tmpPre[noted[p]] # fsPre[Normalize(p)]
          /\ p \notin Range(backups)
          /\ tmp[<<"backup", p>>] = Absent
          /\ fs[Normalize(p)] = fsPre[Normalize(p)]

\* The backup at the head of the Vec cannot be renamed over its original.
RestoreFails ==
    /\ pc \in {"A_rb", "B_rb", "C_rb"} /\ backups # <<>>
    /\ LET n == Normalize(Head(backups))
       IN  ~ /\ tmp[<<"backup", Head(backups)>>].k = "file"
             /\ ResolveErr(fs, n) = NoErr /\ fs[n].k # "dir"
             /\ Writable(readOnly, Parent(n))

\* C32: a backup that cannot be restored aborts the commit, and the commit
\* goes on from a rollback of new files or new directories only when every
\* deletion did its work: none of the paths handed to the deletion workers
\* still exists.
C32_RollbackFailureNotSwallowed ==
    [][/\ RestoreFails => pc' = "panic"
       /\ (pc \in {"rb_files", "rb_dirs"} /\ pc' \notin {pc, "panic"})
          => \A p \in DOMAIN wk : ~exists(fs, p)]_vars

\* C33: when note_file(p) returns Ok, the staging file get_noted_file(p) will
\* return holds the bytes p held at the call and p is unchanged; when
\* new_file(p) returns Ok, the staging file get_new_file(p) will return
\* exists and is empty; a commit that returns Ok without any staging write
\* having been made leaves every registered new file empty.
C33_StagingAfterRegistration ==
    [][/\ \A p \in PATHS :
             /\ (note_file(p) /\ last'.ret = Ok)
                => /\ p \in DOMAIN noted'
                   /\ is_file(fs, p)
                   /\ tmp'[noted'[p]] = fs[Normalize(p)]
                   /\ fs' = fs
             /\ (new_file(p) /\ last'.ret = Ok)
                => /\ p \in DOMAIN new_files'
                   /\ tmp'[new_files'[p]] = File(EmptyContent)
                   /\ fs' = fs
             /\ (get_noted_file(p) /\ p \in DOMAIN noted) => last'.temp = noted[p]
             /\ (get_new_file(p) /\ p \in DOMAIN new_files) => last'.temp = new_files[p]
       /\ (pc' = "ok" /\ writes' = 0)
          => \A p \in DOMAIN new_files : fs'[Normalize(p)] = File(EmptyContent)]_vars

\* A session that noted a file with content and registered a new file, made
\* no staging write, and whose commit returned Ok.
C33_Witness ==
    /\ pc = "ok" /\ writes = 0
    /\ new_files # EmptyMap
    /\ \E p \in DOMAIN noted :
          /\ tmpPre[noted[p]] = fsPre[Normalize(p)]
          /\ fsPre[Normalize(p)].c # EmptyContent

\* C34: the validation of a registration returns the first error of a fixed
\* order.  note_file: NotAFile, then AlreadyNoted (a noted file deleted since
\* yields NotAFile).  new_file: NewItemAlreadyExists, then AlreadyNoted, then
\* NotAFile.  new_dir: NewItemAlreadyExists, then AlreadyNoted, then NotADir.
C34_ValidationOrder ==
    [][\A p \in PATHS :
          /\ note_file(p) =>
                IF ~is_file(fs, p) THEN last'.ret = Error("NotAFile", p)
                ELSE (\E k \in DOMAIN noted : is_same_file(fs, p, k))
                     => last'.ret = Error("AlreadyNoted", p)
          /\ new_file(p) =>
                IF exists(fs, p) THEN last'.ret = Error("NewItemAlreadyExists", p)
                ELSE IF p \in DOMAIN new_files THEN last'.ret = Error("AlreadyNoted", p)
                ELSE ~HasExtension(p) => last'.ret = Error("NotAFile", p)
          /\ new_dir(p) =>
                IF exists(fs, p) THEN last'.ret = Error("NewItemAlreadyExists", p)
                ELSE IF p \in Range(new_dirs) THEN last'.ret = Error("AlreadyNoted", p)
                ELSE (IsEmptyPath(p) \/ HasExtension(p)) => last'.ret = Error("NotADir", p)]_vars

\* note_file was called on a noted file that had been deleted since and
\* returned NotAFile.
C34_Witness ==
    /\ pc = "returned"
    /\ last.op = "note_file"
    /\ last.path \in DOMAIN noted
    /\ last.ret = Error("NotAFile", last.path)

\* The call that just returned is a registration that succeeded.
Registered ==
    last'.op \in {"note_file", "new_file", "new_dir"} /\ last'.ret = Ok

Progress(at) ==
    CASE at \in {"open", "returned"} -> 0
      [] at = "A" -> 1
      [] at = "B" -> 2
      [] at = "C" -> 3
      [] at \in {"A_rb", "B_rb", "C_rb"} -> 4
      [] at = "rb_files" -> 5
      [] at = "rb_dirs" -> 6
      [] at \in {"return_ok", "return_err"} -> 7
      [] OTHER -> 8

\* How far a worker has come with its item.
WorkerProgress(at) ==
    CASE at = "lock" -> 1
      [] at = "copy" -> 2
      [] at = "done" -> 3
      [] OTHER -> 0

\* C36: a commit moves forward only: a phase once left is never entered
\* again, the workers of a phase are started once and an item once attempted
\* or failed is not taken up again; commit returns Ok only after phase C
\* completed and an error only after the rollback; once it has returned,
\* the session takes no further step.
C36_OneWay ==
    [][/\ Progress(pc') >= Progress(pc)
       /\ (pc' # pc /\ Progress(pc) > 0) => Progress(pc') > Progress(pc)
       /\ pc' = "A" => pc \in {"open", "A"}
       /\ pc' = pc =>
             /\ DOMAIN wk' = DOMAIN wk
             /\ \A k \in DOMAIN wk : WorkerProgress(wk'[k]) >= WorkerProgress(wk[k])
             /\ \A k \in DOMAIN wres : k \in DOMAIN wres' /\ wres'[k] = wres[k]
       /\ pc' = "return_ok" => pc = "C" /\ AllDone /\ failedPhase = "none"
       /\ pc' = "return_err" => pc \in {"A_rb", "rb_dirs"} /\ backups = <<>> /\ failedPhase # "none"
       /\ pc' = "ok" => pc = "return_ok" /\ ret' = Ok
       /\ pc' = "err" => pc = "return_err" /\ ret' = err /\ ret' # Ok
       /\ pc \notin {"ok", "err", "dropped", "panic"}]_vars

\* A commit went through the three phases, failed in the last one, rolled
\* back and returned its error.
C36_Witness ==
    /\ pc = "err" /\ failedPhase = "C"
    /\ noted # EmptyMap /\ new_dirs # <<>>

\* C37: a commit that was called returns Ok or an error; when phase A
\* workers wait for the lock of the accumulator, every worker of the phase
\* gets to its end with the lock given back; the holder of the lock is
\* always at its copy, which waits for nobody.
C37_CommitTerminates ==
    /\ (pc = "A") ~> (pc \in {"ok", "err"})
    /\ (pc = "A" /\ \E p \in DOMAIN wk : wk[p] = "lock")
       ~> (pc = "A" /\ AllDone /\ lock = Free)
    /\ [](lock # Free => pc = "A" /\ lock \in DOMAIN wk /\ wk[lock] = "copy")

\* Two phase A workers contend for the lock: one holds it, one waits.
C37_Witness ==
    /\ pc = "A"
    /\ lock # Free
    /\ \E q \in DOMAIN wk : q # lock /\ wk[q] = "lock"

\* C38: when commit returns, Ok or an error, no temp file of the session or
\* of the commit remains.  Before an error is returned every backup has
\* already been renamed over its original, which holds its old bytes again;
\* the backups of a commit that succeeds and all staging files are removed
\* at the return.
C38_NoTempFileRemains ==
    [][pc' \in {"ok", "err"} =>
          /\ \A t \in TempIds : tmp'[t] = Absent
          /\ pc = "return_err" =>
                \A p \in DOMAIN noted :
                   /\ tmp[<<"backup", p>>] = Absent
                   /\ BackupError(p) = NoErr => fs[Normalize(p)] = fsPre[Normalize(p)]
          /\ pc = "return_ok" =>
                \A p \in DOMAIN noted : tmp[<<"backup", p>>].k = "file"]_vars

\* A commit with a noted file, whose backup was created, and a new file
\* returned an error.
C38_Witness ==
    /\ pc = "err"
    /\ new_files # EmptyMap
    /\ \E p \in DOMAIN noted : BackupError(p) = NoErr

\* The filesystem entries the keys of a registry denote.
Entries(keys) == { Normalize(p) : p \in keys }

\* C39: as long as nothing outside the session has changed the filesystem,
\* no filesystem entry is registered in two registries: not as a noted file
\* and a new file or new directory, not as a new file and a new directory.
C39_RegistriesDisjoint ==
    external = 0 =>
        /\ Entries(DOMAIN noted) \cap Entries(DOMAIN new_files) = {}
        /\ Entries(DOMAIN noted) \cap Entries(Range(new_dirs)) = {}
        /\ Entries(DOMAIN new_files) \cap Entries(Range(new_dirs)) = {}

\* The three registries hold an entry each and nothing outside the session
\* has changed the filesystem.
C39_Witness ==
    /\ external = 0
    /\ pc = "open"
    /\ noted # EmptyMap /\ new_files # EmptyMap /\ new_dirs # <<>>

====
